---- MODULE Spec2Model ----
(***************************************************************************)
(* A model of the tapir crate (src/src/lib.rs): the blanket implementation *)
(*                                                                         *)
(*     impl<T> Tap for T {                                                 *)
(*         fn tap<F: FnOnce(&mut Self)>(mut self, f: F) -> Self {          *)
(*             f(&mut self);                                               *)
(*             self                                                        *)
(*         }                                                               *)
(*     }                                                                   *)
(*                                                                         *)
(* driven by a caller that evaluates  v.tap(f)  or  v.tap(f).tap(g), the   *)
(* two shapes the crate's documentation tests use.  The value is an owned  *)
(* object: a binding holds a handle to it (or nothing, once moved out of), *)
(* and the object's contents live in `store`.  A move transfers the handle *)
(* and empties the binding it left; a drop removes the object from the     *)
(* store.  The closures are the ones of the documentation tests (sort,     *)
(* dedup, max += last().unwrap()) and a few others a caller may pass.      *)
(***************************************************************************)
EXTENDS Integers, Sequences, FiniteSets

\* Bounds of the enumerated inputs: sequences of at most MaxLen elements
\* drawn from 0..MaxVal (the inputs of the documentation tests are added).
MaxLen == 3
MaxVal == 2

----------------------------------------------------------------------------
\* Pure helpers: the standard-library calls the closures make.

Range(s) == {s[i] : i \in DOMAIN s}

RECURSIVE SeqsUpTo(_, _)
SeqsUpTo(S, n) ==
    IF n = 0 THEN {<<>>}
    ELSE LET shorter == SeqsUpTo(S, n - 1)
         IN  shorter \cup {Append(s, x) : s \in {t \in shorter : Len(t) = n - 1}, x \in S}

\* fn smallest_factor(x: u32) -> u32: the first i in 2..x dividing x, else x.
RECURSIVE factor_from(_, _)
factor_from(x, i) ==
    IF i >= x THEN x
    ELSE IF x % i = 0 THEN i
    ELSE factor_from(x, i + 1)

smallest_factor(x) == factor_from(x, 2)

\* (lo..hi).map(smallest_factor).collect(): the range excludes hi.
RECURSIVE map_collect(_, _)
map_collect(lo, hi) ==
    IF lo >= hi THEN <<>>
    ELSE <<smallest_factor(lo)>> \o map_collect(lo + 1, hi)

\* let smallest_factors: Vec<u32> = (2..25).map(smallest_factor).collect();
smallest_factors == map_collect(2, 25)

\* The values the documentation tests tap.
DocInputs ==
    { <<42, 7, 1337, 69>>,      \* get_unsorted_values()
      <<2, 8, 3, 4, 0>>,        \* data: [u32; 5]
      smallest_factors }

\* slice::sort, as a result: insertion of each element into a sorted prefix.
RECURSIVE Insert(_, _)
Insert(s, x) ==
    IF s = <<>> THEN <<x>>
    ELSE IF x < Head(s) THEN <<x>> \o s
    ELSE <<Head(s)>> \o Insert(Tail(s), x)

RECURSIVE sort(_)
sort(s) ==
    IF s = <<>> THEN <<>>
    ELSE Insert(sort(SubSeq(s, 1, Len(s) - 1)), s[Len(s)])

\* slice::sort, in place: the sort rearranges the elements where they are, so
\* the slice passes through partly sorted states; one step exchanges the
\* leftmost adjacent pair that is out of order.
Inversions(s) == {i \in 1..(Len(s) - 1) : s[i] > s[i + 1]}

IsSorted(s) == Inversions(s) = {}

FirstInversion(s) == CHOOSE i \in Inversions(s) : \A j \in Inversions(s) : i <= j

SwapAt(s, i) == [s EXCEPT ![i] = s[i + 1], ![i + 1] = s[i]]

\* Vec::dedup: removes all but the first of consecutive equal elements.
RECURSIVE dedup(_)
dedup(s) ==
    IF Len(s) <= 1 THEN s
    ELSE IF s[1] = s[2] THEN dedup(Tail(s))
    ELSE <<s[1]>> \o dedup(Tail(s))

----------------------------------------------------------------------------
\* The closures handed to tap (F: FnOnce(&mut Self)).
\*   sort       |v| v.sort()
\*   dedup      Vec::dedup
\*   add_last   |x| max += x.last().unwrap()    reads x; panics on empty x
\*   count      |_| counter += 1                leaves x alone
\*   noop       |_| {}
\*   count_then_panic   |_| { counter += 1; panic!("boom") }
\*   spin       |_| loop { flag = !flag }       never returns
Mutators == {"sort", "dedup", "add_last", "count", "noop", "count_then_panic", "spin"}

\* The closures that read the value at most, and never write through the
\* reference they are given.
NonAltering == {"add_last", "count", "noop"}

\* v.tap(f) and v.tap(f).tap(g)
Chains == {<<f>> : f \in Mutators} \cup {<<f, g>> : f \in Mutators, g \in Mutators}

\* The values tapped: every short sequence, the documentation tests' values
\* and <<3, 1, 2>>.
Inputs == SeqsUpTo(0..MaxVal, MaxLen) \cup DocInputs \cup {<<3, 1, 2>>}

\* What a closure does when it is called directly on a declared mutable
\* binding (let mut old = d; m(&mut old);): the contents it leaves, what it
\* adds to the captured max and counter, the panic it raises ("none" when it
\* returns) and whether it runs forever.
Direct(m, d) ==
    LET same == [data |-> d, acc |-> 0, cnt |-> 0, fail |-> "none", diverges |-> FALSE]
    IN  CASE m = "sort" -> [same EXCEPT !.data = sort(d)]
          [] m = "dedup" -> [same EXCEPT !.data = dedup(d)]
          [] m = "add_last" ->
                IF d = <<>> THEN [same EXCEPT !.fail = "unwrap_none"]
                ELSE [same EXCEPT !.acc = d[Len(d)]]
          [] m = "count" -> [same EXCEPT !.cnt = 1]
          [] m = "noop" -> same
          [] m = "count_then_panic" -> [same EXCEPT !.cnt = 1, !.fail = "boom"]
          [] m = "spin" -> [same EXCEPT !.diverges = TRUE]

\* The statements  let mut old = d; f(&mut old); g(&mut old);  run one after
\* the other from link i on, stopping at the first closure that panics or
\* does not return.  `at` is the link that stopped the run (0: none did).
RECURSIVE DirectFrom(_, _, _)
DirectFrom(ch, i, st) ==
    IF i > Len(ch) \/ st.fail # "none" \/ st.diverges THEN st
    ELSE LET r == Direct(ch[i], st.data)
             stopped == r.fail # "none" \/ r.diverges
         IN  DirectFrom(ch, i + 1,
                 [data |-> r.data, acc |-> st.acc + r.acc, cnt |-> st.cnt + r.cnt,
                  fail |-> r.fail, diverges |-> r.diverges,
                  at |-> IF stopped THEN i ELSE 0])

DirectChain(ch, d) ==
    DirectFrom(ch, 1, [data |-> d, acc |-> 0, cnt |-> 0, fail |-> "none",
                       diverges |-> FALSE, at |-> 0])

----------------------------------------------------------------------------
VARIABLES
    chain,      \* the closures of the expression, in chain order
    v0,         \* the contents of the value when the expression starts
    k,          \* the link of the chain being evaluated
    pc,         \* where control is: "caller", "tap" (line 82), "f" (inside
                \* the closure, line 83), "ret" (line 84), "unwind", "panicked"
    caller,     \* the caller's binding or temporary: the handle it holds
    self,       \* tap's parameter `mut self`: the handle it holds
    lent,       \* the target of the live `&mut self` reference
    store,      \* the contents of every live object, by handle
    fstep,      \* the running closure's progress through its body
    acc,        \* the caller's `max`, captured by add_last
    counter,    \* the caller's counter, captured by count
    spin,       \* the flag the non-returning closure flips
    panic,      \* the payload of the panic in flight or delivered
    calls,      \* per link, how often its closure has been invoked
    rets,       \* per link, how often its closure has returned
    entry,      \* per link, the contents the closure found behind its reference
    observed    \* what other code last read through a binding it holds

vars == <<chain, v0, k, pc, caller, self, lent, store, fstep, acc, counter, spin,
          panic, calls, rets, entry, observed>>

\* The object the expression starts with.
Obj == 1

Links == 1..Len(chain)

\* The object behind a binding or a reference that holds one.
The(h) == CHOOSE o \in h : TRUE

Done == pc = "caller" /\ k > Len(chain)

Init ==
    /\ chain \in Chains
    /\ v0 \in Inputs
    /\ k = 1
    /\ pc = "caller"
    /\ caller = {Obj}
    /\ self = {}
    /\ lent = {}
    /\ store = [o \in {Obj} |-> v0]
    /\ fstep = 0
    /\ acc = 0
    /\ counter = 0
    /\ spin = FALSE
    /\ panic = "none"
    /\ calls = [i \in Links |-> 0]
    /\ rets = [i \in Links |-> 0]
    /\ entry = [i \in Links |-> <<>>]
    /\ observed = <<>>

----------------------------------------------------------------------------
\* The caller: the method call  value.tap(f).  The receiver is passed by
\* value (`mut self`, line 82): the handle moves into tap's parameter and the
\* caller's binding (or the temporary a previous link returned) is left
\* moved-out.

\* A call that leaves the caller's binding usable, as passing a shared
\* reference would.
CallTapAlias ==
    /\ pc = "caller"
    /\ k <= Len(chain)
    /\ caller # {}
    /\ self' = caller
    /\ pc' = "tap"
    /\ UNCHANGED <<chain, v0, k, caller, lent, store, fstep, acc, counter, spin,
                   panic, calls, rets, entry, observed>>

CallTap ==
    /\ pc = "caller"
    /\ k <= Len(chain)
    /\ caller # {}
    /\ self' = caller
    /\ caller' = {}
    /\ pc' = "tap"
    /\ UNCHANGED <<chain, v0, k, lent, store, fstep, acc, counter, spin,
                   panic, calls, rets, entry, observed>>

\* Line 83, the call  f(&mut self): an exclusive reference to the parameter
\* is created and control enters the closure.

\* A tap that returns the value without calling the closure.
InvokeSkip ==
    /\ pc = "tap"
    /\ pc' = "ret"
    /\ UNCHANGED <<chain, v0, k, caller, self, lent, store, fstep, acc, counter,
                   spin, panic, calls, rets, entry, observed>>

\* A tap that calls the closure on a copy:  f(&mut self.clone()).
InvokeOnClone ==
    /\ pc = "tap"
    /\ store' = [o \in DOMAIN store \cup {Obj + 1} |-> store[The(self)]]
    /\ lent' = {Obj + 1}
    /\ fstep' = 0
    /\ calls' = [calls EXCEPT ![k] = @ + 1]
    /\ entry' = [entry EXCEPT ![k] = store[The(self)]]
    /\ pc' = "f"
    /\ UNCHANGED <<chain, v0, k, caller, self, acc, counter, spin, panic, rets,
                   observed>>

\* A tap that empties the value before it hands it to the closure.
InvokeCleared ==
    /\ pc = "tap"
    /\ store' = [store EXCEPT ![The(self)] = <<>>]
    /\ lent' = self
    /\ fstep' = 0
    /\ calls' = [calls EXCEPT ![k] = @ + 1]
    /\ entry' = [entry EXCEPT ![k] = <<>>]
    /\ pc' = "f"
    /\ UNCHANGED <<chain, v0, k, caller, self, acc, counter, spin, panic, rets,
                   observed>>

Invoke ==
    /\ pc = "tap"
    /\ lent' = self
    /\ fstep' = 0
    /\ calls' = [calls EXCEPT ![k] = @ + 1]
    /\ entry' = [entry EXCEPT ![k] = store[The(self)]]
    /\ pc' = "f"
    /\ UNCHANGED <<chain, v0, k, caller, self, store, acc, counter, spin, panic,
                   rets, observed>>

----------------------------------------------------------------------------
\* The closure's body, run through the reference it was given.

InBody(m) == pc = "f" /\ lent # {} /\ chain[k] = m

\* |v| v.sort(): one exchange of the in-place sort.
FSort ==
    /\ InBody("sort")
    /\ ~IsSorted(store[The(lent)])
    /\ store' = [store EXCEPT ![The(lent)] = SwapAt(@, FirstInversion(@))]
    /\ UNCHANGED <<chain, v0, k, pc, caller, self, lent, fstep, acc, counter,
                   spin, panic, calls, rets, entry, observed>>

\* Vec::dedup
FDedup ==
    /\ InBody("dedup")
    /\ fstep = 0
    /\ store' = [store EXCEPT ![The(lent)] = dedup(@)]
    /\ fstep' = 1
    /\ UNCHANGED <<chain, v0, k, pc, caller, self, lent, acc, counter, spin,
                   panic, calls, rets, entry, observed>>

\* |x| max += x.last().unwrap(), on a slice that has a last element.  max is
\* a u32; the sums of the values tapped here stay far below u32::MAX, so the
\* addition never overflows.
FAddLast ==
    /\ InBody("add_last")
    /\ fstep = 0
    /\ store[The(lent)] # <<>>
    /\ acc' = acc + store[The(lent)][Len(store[The(lent)])]
    /\ fstep' = 1
    /\ UNCHANGED <<chain, v0, k, pc, caller, self, lent, store, counter, spin,
                   panic, calls, rets, entry, observed>>

\* counter += 1, of count and of count_then_panic.
FCount ==
    /\ InBody("count") \/ InBody("count_then_panic")
    /\ fstep = 0
    /\ counter' = counter + 1
    /\ fstep' = 1
    /\ UNCHANGED <<chain, v0, k, pc, caller, self, lent, store, acc, spin,
                   panic, calls, rets, entry, observed>>

\* loop { flag = !flag }
FSpin ==
    /\ InBody("spin")
    /\ spin' = ~spin
    /\ UNCHANGED <<chain, v0, k, pc, caller, self, lent, store, fstep, acc,
                   counter, panic, calls, rets, entry, observed>>

\* The closure has run to the end of its body.
Finished ==
    \/ InBody("sort") /\ IsSorted(store[The(lent)])
    \/ InBody("noop")
    \/ (InBody("dedup") \/ InBody("add_last") \/ InBody("count")) /\ fstep = 1

\* The closure returns: the reference it was given ends with the call (its
\* lifetime is the call's, FnOnce(&mut Self)), and control is back in tap.
FReturn ==
    /\ Finished
    /\ lent' = {}
    /\ rets' = [rets EXCEPT ![k] = @ + 1]
    /\ pc' = "ret"
    /\ UNCHANGED <<chain, v0, k, caller, self, store, fstep, acc, counter, spin,
                   panic, calls, entry, observed>>

\* The panic the closure raises at this point of its body, "none" if none:
\* Option::unwrap on the None that last() gives for an empty slice, and the
\* explicit panic! after the counter was bumped.
Raised ==
    IF InBody("add_last") /\ fstep = 0 /\ store[The(lent)] = <<>> THEN "unwrap_none"
    ELSE IF InBody("count_then_panic") /\ fstep = 1 THEN "boom"
    ELSE "none"

\* The closure panics: unwinding leaves the closure's frame.
FPanic ==
    /\ pc = "f"
    /\ lent # {}
    /\ Raised # "none"
    /\ panic' = Raised
    /\ lent' = {}
    /\ pc' = "unwind"
    /\ UNCHANGED <<chain, v0, k, caller, self, store, fstep, acc, counter, spin,
                   calls, rets, entry, observed>>

----------------------------------------------------------------------------
\* Line 84, `self`: the parameter is moved out to the caller, where it is
\* the receiver of the next link or the value of the expression.

\* A tap that returns a newly built, empty value.
TapReturnDefault ==
    /\ pc = "ret"
    /\ store' = [store EXCEPT ![The(self)] = <<>>]
    /\ caller' = self
    /\ self' = {}
    /\ k' = k + 1
    /\ pc' = "caller"
    /\ UNCHANGED <<chain, v0, lent, fstep, acc, counter, spin, panic, calls,
                   rets, entry, observed>>

\* A tap that returns  self.clone()  and drops self.
TapReturnClone ==
    /\ pc = "ret"
    /\ store' = [o \in {Obj + 1} |-> store[The(self)]]
    /\ caller' = {Obj + 1}
    /\ self' = {}
    /\ k' = k + 1
    /\ pc' = "caller"
    /\ UNCHANGED <<chain, v0, lent, fstep, acc, counter, spin, panic, calls,
                   rets, entry, observed>>

\* A tap that calls the closure again instead of returning.
TapReturnRetry ==
    /\ pc = "ret"
    /\ calls[k] < 2
    /\ pc' = "tap"
    /\ UNCHANGED <<chain, v0, k, caller, self, lent, store, fstep, acc, counter,
                   spin, panic, calls, rets, entry, observed>>

TapReturn ==
    /\ pc = "ret"
    /\ caller' = self
    /\ self' = {}
    /\ k' = k + 1
    /\ pc' = "caller"
    /\ UNCHANGED <<chain, v0, lent, store, fstep, acc, counter, spin, panic,
                   calls, rets, entry, observed>>

\* The panic unwinds through tap's frame.  tap has no catch_unwind: its
\* parameter is dropped, the rest of the chain is never evaluated and the
\* panic reaches the caller with the payload it was raised with.

\* A tap that catches the panic and returns the value.
UnwindCatch ==
    /\ pc = "unwind"
    /\ panic' = "none"
    /\ pc' = "ret"
    /\ UNCHANGED <<chain, v0, k, caller, self, lent, store, fstep, acc, counter,
                   spin, calls, rets, entry, observed>>

\* A tap that catches the panic and raises one of its own.
UnwindWrap ==
    /\ pc = "unwind"
    /\ panic' = "tap failed"
    /\ store' = [o \in DOMAIN store \ self |-> store[o]]
    /\ self' = {}
    /\ pc' = "panicked"
    /\ UNCHANGED <<chain, v0, k, caller, lent, fstep, acc, counter, spin, calls,
                   rets, entry, observed>>

Unwind ==
    /\ pc = "unwind"
    /\ store' = [o \in DOMAIN store \ self |-> store[o]]
    /\ self' = {}
    /\ pc' = "panicked"
    /\ UNCHANGED <<chain, v0, k, caller, lent, fstep, acc, counter, spin, panic,
                   calls, rets, entry, observed>>

\* Code other than tap (the caller, or what a closure captured) reads the
\* value through the caller's binding.  The binding is usable only while it
\* holds the value: a use after the move into tap does not compile.
Observe ==
    /\ pc \in {"caller", "f"}
    /\ caller # {}
    /\ observed' = <<store[The(caller)]>>
    /\ UNCHANGED <<chain, v0, k, pc, caller, self, lent, store, fstep, acc,
                   counter, spin, panic, calls, rets, entry>>

Next ==
    \/ CallTap
    \/ Invoke
    \/ FSort
    \/ FDedup
    \/ FAddLast
    \/ FCount
    \/ FSpin
    \/ FReturn
    \/ FPanic
    \/ TapReturn
    \/ Unwind
    \/ Observe

Spec == Init /\ [][Next]_vars

\* Execution is synchronous: the thread that called tap keeps running, so a
\* step of tap or of the closure that can be taken is taken.
Run ==
    CallTap \/ Invoke \/ FSort \/ FDedup \/ FAddLast \/ FCount \/ FSpin
        \/ FReturn \/ FPanic \/ TapReturn \/ Unwind

FairSpec == Spec /\ WF_vars(Run)

----------------------------------------------------------------------------
\* Properties.

\* What the caller holds: the value the last link returned (or the value it
\* starts with), as a one-element sequence; empty when it holds no value.
Result ==
    IF caller # {} /\ The(caller) \in DOMAIN store
    THEN <<store[The(caller)]>>
    ELSE <<>>

\* The greatest element of a non-empty sequence.
Max(s) == CHOOSE x \in Range(s) : \A y \in Range(s) : y <= x

\* The elements of a set of numbers in increasing order.
RECURSIVE Ascending(_)
Ascending(S) ==
    IF S = {} THEN <<>>
    ELSE LET least == CHOOSE x \in S : \A y \in S : x <= y
         IN  <<least>> \o Ascending(S \ {least})

\* C1: one call of tap invokes its closure exactly once, and the invocation
\* has completed when tap returns: no link's closure is ever invoked twice,
\* a closure returns only after it was invoked, a link that has returned has
\* one invocation and one completed invocation to its name, and after
\* v.tap(count) the counter is exactly 1.
C1_ExactlyOnce ==
    /\ \A i \in Links : calls[i] <= 1 /\ rets[i] <= calls[i]
    /\ \A i \in Links : k > i => calls[i] = 1 /\ rets[i] = 1
    /\ (Done /\ chain = <<"count">>) => counter = 1

C1_Witness ==
    /\ Done
    /\ chain = <<"count">>
    /\ v0 = smallest_factors
    /\ counter = 1
    /\ calls[1] = 1

\* C2: the value tap returns is the value the closure left behind its
\* reference, the same as running the closures directly on a declared
\* mutable binding; tap([3,1,2], sort) = [1,2,3] and
\* tap([42,7,1337,69], sort) = [7,42,69,1337].
C2_MutationVisible ==
    /\ Done => Result = <<DirectChain(chain, v0).data>>
    /\ (Done /\ chain = <<"sort">> /\ v0 = <<3, 1, 2>>) => Result = << <<1, 2, 3>> >>
    /\ (Done /\ chain = <<"sort">> /\ v0 = <<42, 7, 1337, 69>>)
          => Result = << <<7, 42, 69, 1337>> >>

C2_Witness ==
    /\ Done
    /\ chain = <<"sort">>
    /\ v0 = <<42, 7, 1337, 69>>
    /\ Result = << <<7, 42, 69, 1337>> >>

\* C3: in v.tap(f).tap(g), f has returned before g is invoked, g finds the
\* value as f left it, and the result and the effects outside the value are
\* those of g after f: with f = sort and g = add_last the result is the
\* sorted value and max is the greatest element ([2,8,3,4,0] gives
\* [0,2,3,4,8] and 8); with f = sort and g = dedup the result is the distinct
\* elements in increasing order (the unique primes of the crate's example).
C3_ChainOrder ==
    /\ \A i \in Links : (i > 1 /\ calls[i] > 0) => rets[i - 1] = 1
    /\ (Len(chain) = 2 /\ calls[2] > 0) => entry[2] = Direct(chain[1], v0).data
    /\ (Done /\ Len(chain) = 2) =>
          LET f == Direct(chain[1], v0)
              g == Direct(chain[2], f.data)
          IN  Result = <<g.data>> /\ acc = f.acc + g.acc /\ counter = f.cnt + g.cnt
    /\ (Done /\ chain = <<"sort", "add_last">> /\ v0 # <<>>) =>
          Result = <<sort(v0)>> /\ acc = Max(v0)
    /\ (Done /\ chain = <<"sort", "add_last">> /\ v0 = <<2, 8, 3, 4, 0>>) =>
          Result = << <<0, 2, 3, 4, 8>> >> /\ acc = 8
    /\ (Done /\ chain = <<"sort", "dedup">>) => Result = <<Ascending(Range(v0))>>
    /\ (Done /\ chain = <<"sort", "dedup">> /\ v0 = smallest_factors) =>
          Result = << <<2, 3, 5, 7, 11, 13, 17, 19, 23>> >>

C3_Witness ==
    /\ Done
    /\ chain = <<"sort", "add_last">>
    /\ v0 = <<2, 8, 3, 4, 0>>
    /\ entry[2] = <<0, 2, 3, 4, 8>>
    /\ acc = 8

\* C4: tapping with closures that do not write through their reference
\* returns the value unchanged.
C4_NoOpIdentity ==
    (Done /\ \A i \in Links : chain[i] \in NonAltering) => Result = <<v0>>

C4_Witness ==
    /\ Done
    /\ chain = <<"add_last">>
    /\ v0 = <<1, 0, 1>>
    /\ acc = 1
    /\ Result = <<v0>>

\* C5: a panic of the closure passes through tap unchanged: while a panic is
\* in flight or delivered it is the panic, raised by the same closure after
\* the same effects, that running the closures directly on a mutable binding
\* raises; the closure is not called again; the caller gets no value; and no
\* panic is in flight at any other time, so tap raises none of its own.
C5_FailurePropagates ==
    /\ pc \in {"caller", "tap", "f", "ret"} => panic = "none"
    /\ pc \in {"unwind", "panicked"} =>
          LET d == DirectChain(chain, v0)
          IN  /\ d.fail # "none"
              /\ panic = d.fail
              /\ k = d.at
              /\ calls[k] = 1 /\ rets[k] = 0
              /\ acc = d.acc /\ counter = d.cnt
    /\ pc = "panicked" => Result = <<>> /\ self = {}

C5_Witness ==
    /\ pc = "panicked"
    /\ chain = <<"add_last">>
    /\ v0 = <<>>
    /\ panic = "unwrap_none"
    /\ acc = 0

\* C6: exactly one party owns the value at every point, it is lent to the
\* closure only while the closure runs, and the object the caller gets back
\* is the object it passed in: no second object ever exists.
C6_OwnershipPreserved ==
    /\ pc = "caller" => caller = {Obj} /\ self = {} /\ lent = {}
    /\ pc \in {"tap", "ret", "unwind"} => caller = {} /\ self = {Obj} /\ lent = {}
    /\ pc = "f" => caller = {} /\ self = {Obj} /\ lent = {Obj}
    /\ pc = "panicked" => caller = {} /\ self = {} /\ lent = {} /\ DOMAIN store = {}
    /\ pc # "panicked" => DOMAIN store = {Obj}

C6_Witness ==
    /\ Done
    /\ Len(chain) = 2
    /\ caller = {Obj}
    /\ DOMAIN store = {Obj}
    /\ store[Obj] # v0

\* C7: tap itself changes nothing: outside the closure's body no step changes
\* the contents of the value or the state outside it, and the closure finds
\* behind its reference exactly what the caller passed.
C7_TapChangesNothing ==
    /\ [][pc # "f" =>
            /\ acc' = acc /\ counter' = counter /\ spin' = spin
            /\ \A o \in DOMAIN store \cap DOMAIN store' : store'[o] = store[o]
            /\ DOMAIN store' \subseteq DOMAIN store]_vars
    /\ [][(pc = "caller" /\ pc' = "tap") => Result # <<>> /\ self' = caller]_vars
    /\ [][(pc = "tap" /\ pc' = "f") =>
            /\ self \subseteq DOMAIN store
            /\ lent' = self
            /\ entry'[k] = store[The(self)]]_vars
    /\ [](calls[1] > 0 => entry[1] = v0)

C7_Witness ==
    /\ pc = "f"
    /\ chain[k] = "sort"
    /\ k = 2
    /\ entry[2] # v0
    /\ store[Obj] # entry[2]

\* C8: tap terminates exactly when its closure does: from the closure's
\* return tap's only step is its own return, which is taken; a link returns
\* only after its closure returned, so a link whose closure spins never
\* returns; an expression none of whose closures spins ends, with a value or
\* a panic, and one with a spinning closure that is reached never ends.
C8_TerminatesWithMutator ==
    /\ [][pc = "ret" => pc' = "caller" /\ k' = k + 1]_vars
    /\ [](\A i \in Links : k > i => rets[i] = 1)
    /\ [](\A i \in Links : chain[i] = "spin" => k <= i /\ rets[i] = 0)
    /\ [](DirectChain(chain, v0).diverges => ~Done /\ pc # "panicked")
    /\ (pc = "ret") ~> (pc = "caller")
    /\ (~DirectChain(chain, v0).diverges) ~> (Done \/ pc = "panicked")

C8_Witness ==
    /\ pc = "f"
    /\ chain = <<"sort", "spin">>
    /\ k = 2
    /\ rets[1] = 1
    /\ spin

\* C9: while tap has the value nobody but the running closure can reach it:
\* the reference exists only while the closure runs, the caller's binding is
\* empty from the call to the return, and what other code reads through a
\* binding is never a half-done state of the value, only the value as it was
\* passed or as a completed link returned it.
C9_ExclusiveAccess ==
    /\ lent # {} => pc = "f"
    /\ pc \in {"tap", "f", "ret", "unwind"} => caller = {}
    /\ observed # <<>> =>
          observed[1] \in {DirectChain(SubSeq(chain, 1, j), v0).data : j \in 0..(k - 1)}

C9_Witness ==
    /\ pc = "f"
    /\ chain[k] = "sort"
    /\ lent = {Obj}
    /\ store[Obj] \notin {v0, sort(v0)}
    /\ observed = <<v0>>

\* C10: in v.tap(f).tap(g) with an f that panics, g is never invoked and
\* leaves no effect, what f did outside the value before it panicked stays,
\* and the expression ends in f's panic without a value.
C10_ChainStopsAtFailure ==
    LET f == Direct(chain[1], v0)
    IN  (Len(chain) = 2 /\ f.fail # "none") =>
          /\ k = 1
          /\ calls[2] = 0 /\ rets[2] = 0 /\ entry[2] = <<>>
          /\ ~Done
          /\ pc = "panicked" =>
                /\ panic = f.fail
                /\ acc = f.acc /\ counter = f.cnt
                /\ Result = <<>>
                /\ ~ENABLED Next

C10_Witness ==
    /\ pc = "panicked"
    /\ chain = <<"count_then_panic", "count">>
    /\ v0 = <<1, 0>>
    /\ counter = 1
    /\ calls[2] = 0

====
